---- MODULE Spec2Model ----
(***************************************************************************)
(* A model of the loop-level union of geop (EdgeLoop::union with           *)
(* cutting_split, get_subcurve and remesh_self_other) and of the face      *)
(* level category filters (face_union, face_face_intersection).            *)
(*                                                                         *)
(* Geometry is discrete.  A point is an identifier with coordinates; a     *)
(* loop is a cyclic sequence of distinct points, some of them vertices     *)
(* (edge ends) and the others points in the interior of an edge.  Two      *)
(* loops meet exactly at the points they share.                            *)
(***************************************************************************)
EXTENDS Integers, Sequences, FiniteSets, TLC

\* Number of distinct points of the universe.
NumPoints == 3
\* Largest number of listed points of one loop.
MaxPts == 3
\* Largest number of segments in one pool of the stand-alone remesher runs.
MaxSeg == 2
\* Largest number of tagged segments face_split answers.
MaxSplit == 3
\* Largest number of points the surface-surface oracle answers.
MaxFacePoints == 2
\* Largest number of curves the surface-surface oracle answers.
MaxCurves == 1
\* Number of distinct surfaces.
NumSurfaces == 2
\* Number of stretches the boundaries of two faces are made of.
NumPieces == 3

Ids == 1..NumPoints

\* The coordinates a point may have (x, y, z).
Coords == {<<0, 0, 0>>, <<0, 0, 1>>, <<0, 1, 0>>, <<1, 0, 0>>}

VARIABLES
    self_loop,              \* input: the edges of self
    other_loop,             \* input: the edges of other
    overlap,                \* input: shared stretches lie on the same curve
    coord,                  \* input of union: the coordinates of each point
    pc,                     \* position in the running operation
    split_verts,            \* cutting_split: the vertices collected
    segments_self,          \* remesh_self_other: unused segments of self
    segments_other,         \* remesh_self_other: unused segments of other
    edge_loops,             \* remesh_self_other: the loops emitted
    edge_loop,              \* remesh_self_other: the loop being built
    next_segment_is_self,   \* remesh_self_other: the pool searched next
    all_self,               \* history: segments cutting_split made of self
    all_other,              \* history: segments cutting_split made of other
    result,                 \* what the operation returned
    face_op,                \* input: the face-level operation called
    surface_self,           \* input: face_self.surface
    surface_other,          \* input: face_other.surface
    intersection,           \* what surface_surface_intersection answered
    split,                  \* what face_split answered
    edges,                  \* the filtered segments handed to face_remesh
    points,                 \* face_face_intersection: the points kept
    boundary_self,          \* input: face_self.boundaries
    boundary_other,         \* input: face_other.boundaries
    inside,                 \* input: the stretches inside the other face
    call,                   \* caller of face_union: the call it is at
    first                   \* caller of face_union: what the first call returned

faceBoundaries == <<boundary_self, boundary_other, inside, call, first>>

faceVars == <<face_op, surface_self, surface_other, intersection, split, edges, points,
              faceBoundaries>>

vars == <<self_loop, other_loop, overlap, coord, pc, split_verts,
          segments_self, segments_other, edge_loops, edge_loop,
          next_segment_is_self, all_self, all_other, result, faceVars>>

inputs == <<self_loop, other_loop, overlap>>

(***************************************************************************)
(* Sequences                                                               *)
(***************************************************************************)
Range(s) == {s[i] : i \in 1..Len(s)}

InjSeqs(S, n) == {s \in [1..n -> S] : \A i, j \in 1..n : i # j => s[i] # s[j]}

RECURSIVE SortedSeq(_)
SortedSeq(S) ==
    IF S = {} THEN <<>>
    ELSE LET m == CHOOSE x \in S : \A y \in S : x <= y
         IN <<m>> \o SortedSeq(S \ {m})

RECURSIVE Flatten(_)
Flatten(ss) == IF ss = <<>> THEN <<>> ELSE Head(ss) \o Flatten(Tail(ss))

\* The sequence without its i-th element.
RemoveAt(s, i) == [j \in 1..(Len(s) - 1) |-> IF j < i THEN s[j] ELSE s[j + 1]]

\* The least element of a set of indices, 0 when the set is empty.
First(S) == IF S = {} THEN 0 ELSE CHOOSE i \in S : \A j \in S : i <= j

(***************************************************************************)
(* Vertices and edges                                                      *)
(***************************************************************************)
\* Vertex ==: vertices are compared by geometric value; distinct points
\* are distinct places.
VertexEq(a, b) == a = b

\* An edge: start and end vertex, the carrier curve, and the points the
\* edge passes through strictly between its ends.
Edge(s, e, c, in) == [start |-> s, end |-> e, curve |-> c, inner |-> in]

EdgePts(e) == <<e.start>> \o e.inner \o <<e.end>>

\* The loop over the points pts whose vertices are at the positions vset
\* (position 1 is always a vertex: the start of edge 0).
MkLoop(name, pts, vset) ==
    LET vi == SortedSeq(vset)
        n == Len(vi)
        L == Len(pts)
        EdgeAt(k) ==
            LET a == vi[k]
                b == IF k = n THEN L + 1 ELSE vi[k + 1]
            IN Edge(pts[a], pts[((b - 1) % L) + 1], <<name, k - 1>>,
                    [j \in 1..(b - a - 1) |-> pts[a + j]])
    IN [k \in 1..n |-> EdgeAt(k)]

Loops(name) ==
    UNION {{MkLoop(name, pts, vset \cup {1}) :
                pts \in InjSeqs(Ids, L), vset \in SUBSET (2..L)} : L \in 1..MaxPts}

\* The loops of self: up to renaming of points, its points are 1, 2, ... in order.
SelfLoops ==
    UNION {{MkLoop("self", [i \in 1..L |-> i], vset \cup {1}) :
                vset \in SUBSET (2..L)} : L \in 1..MaxPts}

LoopPts(loop) == UNION {Range(EdgePts(loop[i])) : i \in 1..Len(loop)}

\* The directed stretches of curve between consecutive points of an edge.
Stretches(e) == {<<EdgePts(e)[j], EdgePts(e)[j + 1]>> : j \in 1..(Len(EdgePts(e)) - 1)}

\* The stretches two edges have in common, in either direction.
CommonStretches(ea, eb) ==
    {st \in Stretches(ea) : st \in Stretches(eb) \/ <<st[2], st[1]>> \in Stretches(eb)}

HasCommonStretch(la, lb) ==
    \E i \in 1..Len(la), j \in 1..Len(lb) : CommonStretches(la[i], lb[j]) # {}

(***************************************************************************)
(* The edge-edge oracle and projection (Edge, not part of the sources)     *)
(***************************************************************************)
\* The resolution of an edge's parameter: a point in the interior of an
\* edge has parameter j/Resolution for its rank j, the end has parameter 1.
Resolution == MaxPts

EdgeIntersectionVertex(p) == [kind |-> "Vertex", vertex |-> p]
EdgeIntersectionEdge(st) == [kind |-> "Edge", vertex |-> st[1]]

\* Edge::cutting_intersections: a Vertex record for every point the two
\* edges share outside a stretch they have in common, an Edge record for
\* every common stretch.
CuttingIntersections(es, eo) ==
    LET cs == IF overlap THEN CommonStretches(es, eo) ELSE {}
        covered == {st[1] : st \in cs} \cup {st[2] : st \in cs}
        pts == EdgePts(es)
        shared == {j \in 1..Len(pts) :
                      /\ pts[j] \in Range(EdgePts(eo))
                      /\ pts[j] \notin covered
                      /\ \A k \in 1..(j - 1) : pts[k] # pts[j]}
        verts == [k \in 1..Cardinality(shared) |->
                      EdgeIntersectionVertex(pts[SortedSeq(shared)[k]])]
        sts == SortedSeq({j \in 1..(Len(pts) - 1) : <<pts[j], pts[j + 1]>> \in cs})
        overlaps == [k \in 1..Len(sts) |->
                        EdgeIntersectionEdge(<<pts[sts[k]], pts[sts[k] + 1]>>)]
    IN verts \o overlaps

\* Edge::project: the parameter of a point on the edge, scaled by
\* Resolution; -1 (None) when the point is not on the edge.
EdgeProject(e, p) ==
    LET pts == EdgePts(e)
        j == First({k \in 1..Len(pts) : pts[k] = p})
    IN IF j = 0 THEN -1
       ELSE IF j = Len(pts) THEN Resolution
       ELSE j - 1

\* The position in EdgePts(e), from 0, of the point with parameter t.
PosOf(e, t) == IF t = Resolution THEN Len(EdgePts(e)) - 1 ELSE t

\* Edge::new(start, end, curve, direction) on the curve of e, between the
\* parameters ta and tb of e.
SubEdge(e, s, en, ta, tb) ==
    LET a == PosOf(e, ta)
        b == PosOf(e, tb)
    IN Edge(s, en, e.curve, [j \in 1..(b - a - 1) |-> EdgePts(e)[a + j + 1]])

(***************************************************************************)
(* EdgeLoop                                                                *)
(***************************************************************************)
\* EdgeLoop::new: the assertions of the constructor.
EdgeLoopNewOk(es) ==
    /\ \A i \in 1..Len(es) :
          VertexEq(es[i].end, es[(i % Len(es)) + 1].start)
    /\ Len(es) > 0
    /\ VertexEq(es[1].start, es[Len(es)].end)

\* EdgeLoop::project: the loop parameter of a point, scaled by
\* Resolution * n; -1 (None) when the point is on no edge.
LoopProject(loop, p) ==
    LET i == First({k \in 1..Len(loop) : EdgeProject(loop[k], p) >= 0})
    IN IF i = 0 THEN -1 ELSE (i - 1) * Resolution + EdgeProject(loop[i], p)

\* EdgeLoop::get_subcurve: the edges of the loop from start to end.
GetSubcurve(loop, start, end) ==
    LET n == Len(loop)
        u_start == LoopProject(loop, start)
        u_end0 == LoopProject(loop, end)
        u_end == IF u_end0 < u_start THEN u_end0 + n * Resolution ELSE u_end0
        start_i == u_start \div Resolution
        end_i == u_end \div Resolution
        es == loop[(start_i % n) + 1]
        ee == loop[(end_i % n) + 1]
    IN IF u_start < 0 \/ u_end0 < 0 THEN [ok |-> FALSE, edges |-> <<>>]
       ELSE IF start_i = end_i
       THEN [ok |-> TRUE,
             edges |-> <<SubEdge(es, start, end, u_start % Resolution, u_end % Resolution)>>]
       ELSE [ok |-> TRUE,
             edges |-> <<SubEdge(es, start, es.end, u_start % Resolution, Resolution)>>
                       \o [k \in 1..(end_i - start_i - 1) |-> loop[((start_i + k) % n) + 1]]
                       \o <<SubEdge(ee, ee.start, end, 0, u_end % Resolution)>>]

\* cutting_split, lines 108-140: the Vertex records of every pair of
\* edges, in order, each kept unless an equal vertex is already there.
RECURSIVE CollectVerts(_, _)
CollectVerts(recs, acc) ==
    IF recs = <<>> THEN acc
    ELSE LET r == Head(recs)
         IN IF r.kind = "Vertex" /\ \A k \in 1..Len(acc) : ~VertexEq(acc[k], r.vertex)
            THEN CollectVerts(Tail(recs), Append(acc, r.vertex))
            ELSE CollectVerts(Tail(recs), acc)

AllIntersections(ls, lo) ==
    Flatten([i \in 1..Len(ls) |->
                Flatten([j \in 1..Len(lo) |-> CuttingIntersections(ls[i], lo[j])])])

\* sort_by on the projection parameter (a stable sort).
RECURSIVE SortByProject(_, _)
SortByProject(loop, vs) ==
    IF vs = <<>> THEN <<>>
    ELSE LET m == CHOOSE i \in 1..Len(vs) :
                    \A j \in 1..Len(vs) :
                        \/ LoopProject(loop, vs[i]) < LoopProject(loop, vs[j])
                        \/ LoopProject(loop, vs[i]) = LoopProject(loop, vs[j]) /\ i <= j
         IN <<vs[m]>> \o SortByProject(loop, RemoveAt(vs, m))

\* cutting_split, lines 168-186: the subcurves between consecutive
\* split vertices, with wrap-around.
SegmentsOf(loop, sorted) ==
    [i \in 1..Len(sorted) |-> GetSubcurve(loop, sorted[i], sorted[(i % Len(sorted)) + 1])]

(***************************************************************************)
(* EdgeLoop::union of self_loop and other_loop                             *)
(***************************************************************************)
None == [kind |-> "None"]
Some(x) == [kind |-> "Some", value |-> x]
NoResult == [kind |-> "running"]

InitLoops ==
    /\ self_loop \in SelfLoops
    /\ other_loop \in Loops("other")
    /\ overlap \in (IF HasCommonStretch(self_loop, other_loop) THEN BOOLEAN ELSE {FALSE})

\* No boundaries are given, and no caller of face_union is running.
InitNoBoundaries ==
    /\ boundary_self = <<>>
    /\ boundary_other = <<>>
    /\ inside = {}
    /\ call = 0
    /\ first = NoResult

\* No face-level operation is running.
InitNoFace ==
    /\ face_op = "none"
    /\ surface_self = 0
    /\ surface_other = 0
    /\ intersection = [kind |-> "none"]
    /\ split = <<>>
    /\ edges = <<>>
    /\ points = <<>>
    /\ InitNoBoundaries

InitState ==
    /\ coord = <<>>
    /\ split_verts = <<>>
    /\ segments_self = <<>>
    /\ segments_other = <<>>
    /\ edge_loops = <<>>
    /\ edge_loop = <<>>
    /\ next_segment_is_self = FALSE
    /\ all_self = <<>>
    /\ all_other = <<>>
    /\ result = NoResult

Init ==
    /\ InitLoops
    /\ InitState
    /\ InitNoFace
    /\ pc = "start"

\* cutting_split, lines 108-140: collect the split vertices.
CollectSplitVerts ==
    /\ pc = "start"
    /\ split_verts' = CollectVerts(AllIntersections(self_loop, other_loop), <<>>)
    /\ pc' = "split"
    /\ UNCHANGED <<faceVars, inputs, coord, segments_self, segments_other, edge_loops, edge_loop,
                   next_segment_is_self, all_self, all_other, result>>

\* A mutant of the early return of cutting_split: n == 0 is not tested.
SplitReturnsNoneNever(n) == FALSE

\* cutting_split, lines 145-147: no split vertex, no split.
SplitReturnsNone(n) == n = 0

\* cutting_split, lines 143-188, and the head of remesh_self_other
\* (line 195): the parity assertion, None without split vertices, else
\* the segments of both loops.
CuttingSplit ==
    /\ pc = "split"
    /\ LET n == Len(split_verts)
           sorted_self == SortByProject(self_loop, split_verts)
           sorted_other == SortByProject(other_loop, split_verts)
           subs_self == SegmentsOf(self_loop, sorted_self)
           subs_other == SegmentsOf(other_loop, sorted_other)
           projected == \A k \in 1..n : /\ LoopProject(self_loop, split_verts[k]) >= 0
                                        /\ LoopProject(other_loop, split_verts[k]) >= 0
           found == /\ \A k \in 1..n : subs_self[k].ok
                    /\ \A k \in 1..n : subs_other[k].ok
       IN IF n % 2 # 0
          THEN /\ pc' = "panic"
               /\ UNCHANGED <<segments_self, segments_other, all_self, all_other, result>>
          ELSE IF SplitReturnsNone(n)
          THEN /\ pc' = "done"
               /\ result' = None
               /\ UNCHANGED <<segments_self, segments_other, all_self, all_other>>
          ELSE IF ~projected \/ ~found
          THEN /\ pc' = "panic"
               /\ UNCHANGED <<segments_self, segments_other, all_self, all_other, result>>
          ELSE /\ segments_self' = [k \in 1..n |-> subs_self[k].edges]
               /\ segments_other' = [k \in 1..n |-> subs_other[k].edges]
               /\ all_self' = segments_self'
               /\ all_other' = segments_other'
               /\ pc' = "pop"
               /\ UNCHANGED result
    /\ UNCHANGED <<faceVars, inputs, coord, split_verts, edge_loops, edge_loop, next_segment_is_self>>

(***************************************************************************)
(* remesh_self_other, lines 210-231.  Segments are never empty             *)
(* (get_subcurve returns at least one edge), so neither is edge_loop       *)
(* after a pop.                                                            *)
(***************************************************************************)
\* The condition of the inner while: the loop being built is open.
LoopOpen(el) == Len(el) = 0 \/ ~VertexEq(el[Len(el)].end, el[1].start)

\* Line 221: the segment starts where the loop being built ends.
Continues(segment, el) == VertexEq(segment[1].start, el[Len(el)].end)

\* Line 212: while let Some(next_segment) = segments_self.pop().
RemeshPop ==
    /\ pc = "pop"
    /\ segments_self # <<>>
    /\ edge_loop' = segments_self[Len(segments_self)]
    /\ segments_self' = SubSeq(segments_self, 1, Len(segments_self) - 1)
    /\ pc' = "build"
    /\ UNCHANGED <<faceVars, inputs, coord, split_verts, segments_other, edge_loops,
                   next_segment_is_self, all_self, all_other, result>>

\* Line 231: segments_self is empty, Some(edge_loops) is returned.
RemeshReturn ==
    /\ pc = "pop"
    /\ segments_self = <<>>
    /\ pc' = "select"
    /\ UNCHANGED <<faceVars, inputs, coord, split_verts, segments_self, segments_other, edge_loops,
                   edge_loop, next_segment_is_self, all_self, all_other, result>>

\* A mutant of line 222: the segment found is copied and stays in its pool.
RemoveKeeps(s, i) == s

\* Line 222: relevant_segments.remove(i), with i counted from 1.
Remove(s, i) == RemoveAt(s, i)

\* A mutant of the search step: a search that finds nothing does not
\* switch pools.
ToggleOnlyWhenFound(flag, found) == IF found THEN ~flag ELSE flag

\* Line 227: the pool is switched after every search.
Toggle(flag, found) == ~flag

\* Lines 215-227: one pass of the inner while.  The first segment of the
\* relevant pool that continues the loop is removed and appended; when
\* there is none, next_segment is the drained (empty) one and nothing is
\* appended.
RemeshSearch ==
    /\ pc = "build"
    /\ LoopOpen(edge_loop)
    /\ LET relevant == IF next_segment_is_self THEN segments_self ELSE segments_other
           i == First({k \in 1..Len(relevant) : Continues(relevant[k], edge_loop)})
           rest == IF i = 0 THEN relevant ELSE Remove(relevant, i)
       IN /\ edge_loop' = IF i = 0 THEN edge_loop ELSE edge_loop \o relevant[i]
          /\ segments_self' = IF next_segment_is_self THEN rest ELSE segments_self
          /\ segments_other' = IF next_segment_is_self THEN segments_other ELSE rest
          /\ next_segment_is_self' = Toggle(next_segment_is_self, i # 0)
    /\ UNCHANGED <<faceVars, inputs, coord, pc, split_verts, edge_loops, all_self, all_other, result>>

\* A mutant of the emission: the chain is emitted as it stands, closed or
\* not, as a struct literal that runs none of the constructor's assertions.
RemeshPushUnchecked ==
    /\ pc = "build"
    /\ edge_loops' = Append(edge_loops, edge_loop)
    /\ edge_loop' = <<>>
    /\ pc' = "pop"
    /\ UNCHANGED <<faceVars, inputs, coord, split_verts, segments_self, segments_other,
                   next_segment_is_self, all_self, all_other, result>>

\* Line 229: the loop is closed; EdgeLoop::new asserts it and it is emitted.
RemeshPush ==
    /\ pc = "build"
    /\ ~LoopOpen(edge_loop)
    /\ IF EdgeLoopNewOk(edge_loop)
       THEN /\ edge_loops' = Append(edge_loops, edge_loop)
            /\ edge_loop' = <<>>
            /\ pc' = "pop"
       ELSE /\ pc' = "panic"
            /\ UNCHANGED <<edge_loops, edge_loop>>
    /\ UNCHANGED <<faceVars, inputs, coord, split_verts, segments_self, segments_other,
                   next_segment_is_self, all_self, all_other, result>>

(***************************************************************************)
(* EdgeLoop::union, lines 235-270                                          *)
(***************************************************************************)
\* Lines 243-262: the edge replaces outer_edge when its start has a
\* smaller x, or else a smaller y, or else a smaller z.
TakesOver(c, e, outer) ==
    LET p == c[e.start]
        q == c[outer.start]
    IN IF p[1] < q[1] THEN TRUE
       ELSE IF p[2] < q[2] THEN TRUE
       ELSE p[3] < q[3]

RECURSIVE ScanOuter(_, _, _)
ScanOuter(c, es, outer) ==
    IF es = <<>> THEN outer
    ELSE ScanOuter(c, Tail(es),
                   IF TakesOver(c, Head(es), outer) THEN Head(es) ELSE outer)

\* Lines 239-264: the outer edge over all edges of all loops.
OuterEdge(c, loops) == ScanOuter(c, Flatten(loops), loops[1][1])

\* Line 267: the first loop that contains the outer edge.
OuterLoopIndex(c, loops) ==
    LET outer_edge == OuterEdge(c, loops)
    IN First({i \in 1..Len(loops) : \E k \in 1..Len(loops[i]) : loops[i][k] = outer_edge})

\* The coordinates the points may have: distinct points, distinct places.
CoordMaps == {c \in [Ids -> Coords] : \A a, b \in Ids : a # b => c[a] # c[b]}

\* Lines 239-269.  The coordinates are read here for the first time.
UnionSelect ==
    /\ pc = "select"
    /\ \E c \in CoordMaps :
          /\ coord' = c
          /\ IF edge_loops = <<>>
             THEN /\ pc' = "panic"
                  /\ UNCHANGED result
             ELSE /\ result' = Some(edge_loops[OuterLoopIndex(c, edge_loops)])
                  /\ pc' = "done"
    /\ UNCHANGED <<faceVars, inputs, split_verts, segments_self, segments_other, edge_loops,
                   edge_loop, next_segment_is_self, all_self, all_other>>

Next ==
    \/ CollectSplitVerts
    \/ CuttingSplit
    \/ RemeshPop
    \/ RemeshSearch
    \/ RemeshPush
    \/ RemeshReturn
    \/ UnionSelect

Spec == Init /\ [][Next]_vars

(***************************************************************************)
(* The chain-building loop of remesh_self_other on its own, entered with   *)
(* pools of any shape: each segment a single edge between two points.      *)
(***************************************************************************)
Pools(name) ==
    UNION {{[k \in 1..n |-> <<Edge(f[k][1], f[k][2], <<name, k - 1>>, <<>>)>>] :
                f \in [1..n -> Ids \X Ids]} : n \in 0..MaxSeg}

InitRemesh ==
    /\ self_loop = <<>>
    /\ other_loop = <<>>
    /\ overlap = FALSE
    /\ InitNoFace
    /\ coord = <<>>
    /\ split_verts = <<>>
    /\ segments_self \in Pools("self")
    /\ segments_other \in Pools("other")
    /\ all_self = segments_self
    /\ all_other = segments_other
    /\ edge_loops = <<>>
    /\ edge_loop = <<>>
    /\ next_segment_is_self = FALSE
    /\ result = NoResult
    /\ pc = "pop"

NextRemesh ==
    \/ RemeshPop
    \/ RemeshSearch
    \/ RemeshPush
    \/ RemeshReturn

SpecRemesh == InitRemesh /\ [][NextRemesh]_vars

\* The loop-level union with the loops of remesh_self_other under weak
\* fairness: a pop, search, push or return that can run does run.
FairSpec == Spec /\ WF_vars(NextRemesh)

(***************************************************************************)
(* cutting_split from line 143 on, entered with split vertices of any      *)
(* kind: distinct points, on both loops or not (an oracle and a projection *)
(* that disagree on what lies on a loop).                                  *)
(***************************************************************************)
SplitVertLists == UNION {InjSeqs(Ids, n) : n \in 0..MaxPts}

InitSplit ==
    /\ InitLoops
    /\ InitNoFace
    /\ coord = <<>>
    /\ split_verts \in SplitVertLists
    /\ segments_self = <<>>
    /\ segments_other = <<>>
    /\ edge_loops = <<>>
    /\ edge_loop = <<>>
    /\ next_segment_is_self = FALSE
    /\ all_self = <<>>
    /\ all_other = <<>>
    /\ result = NoResult
    /\ pc = "split"

NextSplit ==
    \/ CuttingSplit
    \/ RemeshPop
    \/ RemeshSearch
    \/ RemeshPush
    \/ RemeshReturn
    \/ UnionSelect

SpecSplit == InitSplit /\ [][NextSplit]_vars

(***************************************************************************)
(* Face level: face_union, face_face_same_surface_intersection and         *)
(* face_face_intersection.  face_split, face_remesh, normalize_faces and   *)
(* the oracles are not part of the sources: their answers are inputs.      *)
(***************************************************************************)
Tags == {"AinB", "AonBSameSide", "AonBOpSide", "AoutB",
         "BinA", "BonASameSide", "BonAOpSide", "BoutA"}

\* What face_split may answer: tagged segments, each with its own payload.
SplitLists ==
    UNION {{[k \in 1..n |-> [tag |-> t[k], seg |-> k]] : t \in [1..n -> Tags]} :
               n \in 0..MaxSplit}

Containment == {"Inside", "OnBoundary", "Outside"}

\* The points the surface-surface oracle may answer, each with what
\* face_point_contains says of it for both faces.
PointLists ==
    UNION {{[k \in 1..n |-> [id |-> k, in_self |-> c[k][1], in_other |-> c[k][2]]] :
                c \in [1..n -> Containment \X Containment]} : n \in 0..MaxFacePoints}

\* surface_surface_intersection: coincident for the same surface, else
\* nothing or curves and points.
SurfaceSurfaceIntersection(a, b) ==
    IF a = b THEN {[kind |-> "Surface"]}
    ELSE {[kind |-> "None"]} \cup
         {[kind |-> "CurvesAndPoints", curves |-> nc, points |-> ps] :
              nc \in 0..MaxCurves, ps \in PointLists}

\* Iterator::filter and collect: the elements of s at the indices that
\* passed the filter, in their order.
Collect(s, passed) ==
    LET kept == SortedSeq(passed)
    IN [k \in 1..Len(kept) |-> s[kept[k]]]

\* A mutant of the union filter: the B copy of a coincident stretch is kept too.
UnionKeepsBothCopies(mode) ==
    mode.tag \in {"AonBSameSide", "AoutB", "BoutA", "BonASameSide"}

\* A mutant of the union filter: no coincident stretch is kept.
UnionKeepsOnlyOutside(mode) ==
    mode.tag \in {"AoutB", "BoutA"}

\* A mutant of the union filter: nothing of face_other is kept.
UnionKeepsOnlyA(mode) ==
    mode.tag \in {"AonBSameSide", "AoutB"}

\* face_union, lines 12-21: the match of the filter.
UnionKeeps(mode) ==
    CASE mode.tag = "AinB" -> FALSE
      [] mode.tag = "AonBSameSide" -> TRUE
      [] mode.tag = "AonBOpSide" -> FALSE
      [] mode.tag = "AoutB" -> TRUE
      [] mode.tag = "BinA" -> FALSE
      [] mode.tag = "BonASameSide" -> FALSE
      [] mode.tag = "BonAOpSide" -> FALSE
      [] mode.tag = "BoutA" -> TRUE

\* A mutant of the intersection filter: the arms of AinB and AoutB are swapped.
IntersectionKeepsSwapped(mode) ==
    mode.tag \in {"AoutB", "AonBSameSide", "BinA"}

\* face_face_same_surface_intersection, lines 26-35: the match of the filter.
IntersectionKeeps(mode) ==
    CASE mode.tag = "AinB" -> TRUE
      [] mode.tag = "AonBSameSide" -> TRUE
      [] mode.tag = "AonBOpSide" -> FALSE
      [] mode.tag = "AoutB" -> FALSE
      [] mode.tag = "BinA" -> TRUE
      [] mode.tag = "BonASameSide" -> FALSE
      [] mode.tag = "BonAOpSide" -> FALSE
      [] mode.tag = "BoutA" -> FALSE

FaceOps == {"face_union", "face_face_same_surface_intersection", "face_face_intersection"}

InitFace ==
    /\ self_loop = <<>>
    /\ other_loop = <<>>
    /\ overlap = FALSE
    /\ InitState
    /\ face_op \in FaceOps
    /\ surface_self \in 1..NumSurfaces
    /\ surface_other \in 1..NumSurfaces
    /\ intersection = [kind |-> "none"]
    /\ split = <<>>
    /\ edges = <<>>
    /\ points = <<>>
    /\ InitNoBoundaries
    /\ pc = "start"

loopVars == <<self_loop, other_loop, overlap, coord, split_verts, segments_self,
              segments_other, edge_loops, edge_loop, next_segment_is_self,
              all_self, all_other>>

faceInputs == <<face_op, surface_self, surface_other, faceBoundaries>>

\* face_face_intersection, lines 53-54 and 87-89: the match on the
\* answer of the surface-surface oracle.
FaceFaceDispatch ==
    /\ pc = "start"
    /\ face_op = "face_face_intersection"
    /\ \E i \in SurfaceSurfaceIntersection(surface_self, surface_other) :
          /\ intersection' = i
          /\ IF i.kind = "None"
             THEN /\ result' = [kind |-> "None"]
                  /\ pc' = "done"
             ELSE IF i.kind = "CurvesAndPoints"
             THEN /\ pc' = "points"
                  /\ UNCHANGED result
             ELSE /\ pc' = "same_surface"
                  /\ UNCHANGED result
    /\ UNCHANGED <<loopVars, faceInputs, split, edges, points>>

\* Lines 58-61: the point is outside neither face.
PointKept(p) == p.in_self # "Outside" /\ p.in_other # "Outside"

\* Lines 56-63: the points of the oracle contained in both faces.
FilterPoints ==
    /\ pc = "points"
    /\ points' = Collect(intersection.points,
                       {i \in 1..Len(intersection.points) : PointKept(intersection.points[i])})
    /\ pc' = "curves"
    /\ UNCHANGED <<loopVars, faceInputs, intersection, split, edges, result>>

\* Lines 65-85: every curve goes through
\* curve_face_intersection_same_surface, which is todo!(); without
\* curves no edge is found and the points are returned.
ExtractCurves ==
    /\ pc = "curves"
    /\ IF intersection.curves > 0
       THEN /\ pc' = "panic"
            /\ UNCHANGED result
       ELSE /\ result' = [kind |-> "EdgesAndPoints", points |-> points, edges |-> <<>>]
            /\ pc' = "done"
    /\ UNCHANGED <<loopVars, faceVars>>

\* A mutant of the assertion: the surfaces are not compared.
AssertSkipped(a, b) == TRUE

\* The condition asserted: face_self.surface == face_other.surface.
AssertSameSurface(a, b) == a = b

\* The assertion at the head of face_union (lines 5-8) and of
\* face_face_same_surface_intersection (lines 19-22).
SameSurfaceAssert ==
    /\ \/ pc = "start" /\ face_op \in {"face_union", "face_face_same_surface_intersection"}
       \/ pc = "same_surface"
    /\ pc' = IF AssertSameSurface(surface_self, surface_other) THEN "split" ELSE "panic"
    /\ UNCHANGED <<loopVars, faceVars, result>>

\* face_split(face_self, face_other).
FaceSplitCall ==
    /\ pc = "split"
    /\ split' \in SplitLists
    /\ pc' = "filter"
    /\ UNCHANGED <<loopVars, faceInputs, intersection, edges, points, result>>

\* The filter over the answer of face_split: the one of face_union
\* (lines 10-21) or of face_face_same_surface_intersection (lines 24-36).
FaceFilter ==
    /\ pc = "filter"
    /\ edges' = IF face_op = "face_union"
                THEN Collect(split, {i \in 1..Len(split) : UnionKeeps(split[i])})
                ELSE Collect(split, {i \in 1..Len(split) : IntersectionKeeps(split[i])})
    /\ pc' = "remesh"
    /\ UNCHANGED <<loopVars, faceInputs, intersection, split, points, result>>

\* face_remesh (and normalize_faces) on the filtered segments; the
\* result is a face for face_union, a list of faces else, wrapped in
\* Faces by face_face_intersection.
FaceRemesh ==
    /\ pc = "remesh"
    /\ result' = [kind |-> CASE face_op = "face_union" -> "Face"
                            [] face_op = "face_face_same_surface_intersection" -> "VecFace"
                            [] OTHER -> "Faces",
                  from |-> edges]
    /\ pc' = "done"
    /\ UNCHANGED <<loopVars, faceVars>>

NextFace ==
    \/ FaceFaceDispatch
    \/ FilterPoints
    \/ ExtractCurves
    \/ SameSurfaceAssert
    \/ FaceSplitCall
    \/ FaceFilter
    \/ FaceRemesh

SpecFace == InitFace /\ [][NextFace]_vars

(***************************************************************************)
(* face_union on two given faces, called in both orders.  The boundaries   *)
(* of the two faces are cut at every point where they meet or part; a      *)
(* stretch is what lies between two such points, and stands for its        *)
(* points.  A stretch on both boundaries is a coincident one.              *)
(***************************************************************************)
PieceIds == 1..NumPieces

Dirs == {"forward", "backward"}

\* Face.boundaries: the stretches of a boundary, each with the direction
\* the boundary runs through it.  A face has at least one.
Boundaries ==
    UNION {{[k \in 1..Len(SortedSeq(S)) |->
                [seg |-> SortedSeq(S)[k], dir |-> d[SortedSeq(S)[k]]]] :
                d \in [S -> Dirs]} : S \in (SUBSET PieceIds) \ {{}}}

BoundaryPoints(segs) == {segs[k].seg : k \in 1..Len(segs)}

\* The tag face_split gives the stretch p of one face against the
\* boundary b of the other: on b with the same or the opposite direction,
\* else inside or outside by the containment of its midpoint.
Classify(p, b, ins) ==
    IF \E j \in 1..Len(b) : b[j].seg = p.seg
    THEN IF \E j \in 1..Len(b) : b[j].seg = p.seg /\ b[j].dir = p.dir
         THEN "onSameSide" ELSE "onOpSide"
    ELSE IF p.seg \in ins THEN "in" ELSE "out"

TagOfSelf(c) ==
    CASE c = "in" -> "AinB"
      [] c = "onSameSide" -> "AonBSameSide"
      [] c = "onOpSide" -> "AonBOpSide"
      [] c = "out" -> "AoutB"

TagOfOther(c) ==
    CASE c = "in" -> "BinA"
      [] c = "onSameSide" -> "BonASameSide"
      [] c = "onOpSide" -> "BonAOpSide"
      [] c = "out" -> "BoutA"

\* face_split(a, b): every stretch of a and every stretch of b, tagged.
FaceSplit(a, b, ins) ==
    [k \in 1..(Len(a) + Len(b)) |->
        IF k <= Len(a)
        THEN [tag |-> TagOfSelf(Classify(a[k], b, ins)), seg |-> a[k].seg]
        ELSE [tag |-> TagOfOther(Classify(b[k - Len(a)], a, ins)),
              seg |-> b[k - Len(a)].seg]]

\* Two faces on one surface; only a stretch of one boundary alone is
\* inside or outside the other face.
InitUnion ==
    /\ self_loop = <<>>
    /\ other_loop = <<>>
    /\ overlap = FALSE
    /\ InitState
    /\ face_op = "face_union"
    /\ surface_self \in 1..NumSurfaces
    /\ surface_other = surface_self
    /\ intersection = [kind |-> "none"]
    /\ split = <<>>
    /\ edges = <<>>
    /\ points = <<>>
    /\ boundary_self \in Boundaries
    /\ boundary_other \in Boundaries
    /\ inside \in SUBSET ((BoundaryPoints(boundary_self) \ BoundaryPoints(boundary_other))
                          \cup (BoundaryPoints(boundary_other) \ BoundaryPoints(boundary_self)))
    /\ call = 1
    /\ first = NoResult
    /\ pc = "start"

\* face_split(face_self, face_other) on the two given faces.
FaceSplitBoundaries ==
    /\ pc = "split"
    /\ split' = FaceSplit(boundary_self, boundary_other, inside)
    /\ pc' = "filter"
    /\ UNCHANGED <<loopVars, faceInputs, intersection, edges, points, result>>

\* The caller, having face_union(A, B), calls face_union(B, A).
SwapFaces ==
    /\ pc = "done"
    /\ call = 1
    /\ first' = result
    /\ call' = 2
    /\ boundary_self' = boundary_other
    /\ boundary_other' = boundary_self
    /\ surface_self' = surface_other
    /\ surface_other' = surface_self
    /\ split' = <<>>
    /\ edges' = <<>>
    /\ result' = NoResult
    /\ pc' = "start"
    /\ UNCHANGED <<loopVars, face_op, inside, intersection, points>>

NextUnion ==
    \/ SameSurfaceAssert
    \/ FaceSplitBoundaries
    \/ FaceFilter
    \/ FaceRemesh
    \/ SwapFaces

SpecUnion == InitUnion /\ [][NextUnion]_vars

(***************************************************************************)
(* Properties of the loop-level union                                      *)
(***************************************************************************)
\* Each edge ends at the very point the next one starts at, wrap-around
\* included, and there is at least one edge.
Closed(l) ==
    /\ Len(l) > 0
    /\ \A i \in 1..Len(l) : l[i].end = l[(i % Len(l)) + 1].start

\* C1: every loop the remesher has emitted, and so the one union returns,
\* is non-empty and each of its edges ends where the next one starts, the
\* last one where the first starts; no open chain is ever emitted.
C1_Closure ==
    /\ \A k \in 1..Len(edge_loops) : Closed(edge_loops[k])
    /\ result.kind = "Some" => Closed(result.value)

\* Two loops were emitted, one of them of three edges or more, and union
\* returned one of them.
C1_Witness ==
    /\ pc = "done"
    /\ result.kind = "Some"
    /\ Len(edge_loops) >= 2
    /\ \E k \in 1..Len(edge_loops) : Len(edge_loops[k]) >= 3

\* The loop being built is open and no unused segment of either pool
\* starts at its open end.
NoContinuation ==
    /\ pc = "build"
    /\ LoopOpen(edge_loop)
    /\ \A k \in 1..Len(segments_self) : ~Continues(segments_self[k], edge_loop)
    /\ \A k \in 1..Len(segments_other) : ~Continues(segments_other[k], edge_loop)

AllSegments == all_self \o all_other

\* The segments of a pool that start, and that end, at the vertex v.
StartsAt(pool, v) == {k \in 1..Len(pool) : pool[k][1].start = v}
EndsAt(pool, v) == {k \in 1..Len(pool) : pool[k][Len(pool[k])].end = v}

\* The vertices at which a segment starts or ends.
CrossingVertices ==
    {AllSegments[k][1].start : k \in 1..Len(AllSegments)}
        \cup {AllSegments[k][Len(AllSegments[k])].end : k \in 1..Len(AllSegments)}

\* At every crossing vertex exactly one segment of self and one of other
\* start, and exactly one of each end.
EvenIncidence ==
    \A v \in CrossingVertices :
        /\ Cardinality(StartsAt(all_self, v)) = 1
        /\ Cardinality(StartsAt(all_other, v)) = 1
        /\ Cardinality(EndsAt(all_self, v)) = 1
        /\ Cardinality(EndsAt(all_other, v)) = 1

\* C3: with exactly one segment of self and one of other starting and
\* ending at every crossing vertex, the remesher, popping or building,
\* reaches the state where segments_self is exhausted and it returns.
C3_Termination ==
    (pc \in {"pop", "build"} /\ EvenIncidence) ~> (pc = "select")

\* The remesher returned after emitting two loops from pools of two
\* segments each that satisfy the precondition.
C3_Witness ==
    /\ pc = "select"
    /\ EvenIncidence
    /\ Len(all_self) = 2
    /\ Len(all_other) = 2
    /\ Len(edge_loops) = 2

\* The places (loop, offset) where the segment s stands in an emitted loop.
Occurrences(s) ==
    UNION {{<<l, o>> : o \in {o2 \in 1..Len(edge_loops[l]) :
                                /\ o2 + Len(s) - 1 <= Len(edge_loops[l])
                                /\ SubSeq(edge_loops[l], o2, o2 + Len(s) - 1) = s}} :
               l \in 1..Len(edge_loops)}

\* C4: when remesh_self_other has returned, both pools are empty and every
\* segment cutting_split produced stands in exactly one emitted loop,
\* exactly once, the emitted loops holding nothing else.
C4_AllConsumed ==
    pc \in {"select", "done"} =>
        /\ segments_self = <<>>
        /\ segments_other = <<>>
        /\ \A k \in 1..Len(AllSegments) : Cardinality(Occurrences(AllSegments[k])) = 1
        /\ Len(Flatten(edge_loops)) = Len(Flatten(AllSegments))

\* The remesher returned two loops made of the four segments of a split
\* in which some segment has more than one edge.
C4_Witness ==
    /\ pc = "select"
    /\ Len(AllSegments) = 4
    /\ Len(edge_loops) = 2
    /\ \E k \in 1..4 : Len(AllSegments[k]) >= 2

\* (x, y, z) before (x', y', z') in the lexicographic order.
LexLess(p, q) ==
    \/ p[1] < q[1]
    \/ p[1] = q[1] /\ p[2] < q[2]
    \/ p[1] = q[1] /\ p[2] = q[2] /\ p[3] < q[3]

\* The start points of the edges of all candidate loops.
Starts == {Flatten(edge_loops)[i].start : i \in 1..Len(Flatten(edge_loops))}

\* The lexicographically smallest of them.
Extremal ==
    CHOOSE v \in Starts : \A w \in Starts \ {v} : LexLess(coord[v], coord[w])

\* C5: the loop union returns holds the lexicographically smallest
\* (x, then y, then z) edge start point of all candidate loops.
C5_ReturnsExtremalLoop ==
    (pc = "done" /\ result.kind = "Some") =>
        \E k \in 1..Len(result.value) : result.value[k].start = Extremal

\* The two loops are identical: edge by edge the same points, every
\* stretch on the same curve.
Identical ==
    /\ overlap
    /\ Len(self_loop) = Len(other_loop)
    /\ \A i \in 1..Len(self_loop) : EdgePts(self_loop[i]) = EdgePts(other_loop[i])

\* C6: the union of two identical loops is a loop whose point set is that
\* of the inputs; it is not None.
C6_IdenticalLoops ==
    (pc = "done" /\ Identical) =>
        /\ result.kind = "Some"
        /\ LoopPts(result.value) = LoopPts(self_loop)

\* The edge-edge oracle reports no Vertex record for any pair of edges.
NoCrossing ==
    \A i \in 1..Len(self_loop), j \in 1..Len(other_loop) :
        \A r \in Range(CuttingIntersections(self_loop[i], other_loop[j])) :
            r.kind # "Vertex"

KeptExactly(T) ==
    /\ \A i \in 1..Len(edges) : edges[i].tag \in T
    /\ \A j \in 1..Len(split) : split[j].tag \in T => \E i \in 1..Len(edges) : edges[i] = split[j]
    /\ \A i \in 1..Len(edges) : \E j \in 1..Len(split) : edges[i] = split[j]
    /\ \A i, j \in 1..Len(edges) : i < j => edges[i].seg < edges[j].seg

\* C8: face_union hands face_remesh exactly the segments tagged AoutB,
\* BoutA or AonBSameSide, in the order face_split gave them; BonASameSide,
\* the other copy of a coincident stretch, is dropped with the rest.
C8_UnionFilter ==
    (face_op = "face_union" /\ pc \in {"remesh", "done"}) =>
        /\ KeptExactly({"AoutB", "BoutA", "AonBSameSide"})
        /\ pc = "done" => result = [kind |-> "Face", from |-> edges]

\* face_union returned after a split that held both copies of a
\* coincident stretch and a segment of A inside B.
C8_Witness ==
    /\ face_op = "face_union"
    /\ pc = "done"
    /\ Len(edges) = 1
    /\ \E i, j, k \in 1..Len(split) :
          /\ split[i].tag = "AonBSameSide"
          /\ split[j].tag = "BonASameSide"
          /\ split[k].tag = "AinB"

C10_NoneOrContained ==
    (/\ face_op = "face_face_intersection"
     /\ intersection.kind \in {"None", "CurvesAndPoints"}
     /\ pc \in {"done", "panic"}) =>
        /\ pc = "done"
        /\ intersection.kind = "None" => result.kind = "None"
        /\ intersection.kind = "CurvesAndPoints" =>
               /\ result.kind = "EdgesAndPoints"
               /\ \A i \in 1..Len(result.points) :
                      /\ result.points[i].in_self # "Outside"
                      /\ result.points[i].in_other # "Outside"

\* C11: the unimplemented extraction of the part of an intersection curve
\* that lies on a face does not crash face_face_intersection: with one
\* curve or more in the oracle's answer the call still never aborts.
C11_UnsupportedSignalled ==
    (/\ face_op = "face_face_intersection"
     /\ intersection.kind = "CurvesAndPoints"
     /\ intersection.curves > 0) => pc # "panic"

\* A same-surface operation was called with two surfaces that differ.
DifferentSurfaces ==
    /\ face_op \in {"face_union", "face_face_same_surface_intersection"}
    /\ surface_self # surface_other

\* C12: face_union and face_face_same_surface_intersection called with
\* surfaces that are not equal abort at once: the only state after the
\* call is the abort, with nothing split, filtered, remeshed or returned.
C12_AbortsOnDifferentSurfaces ==
    (DifferentSurfaces /\ pc # "start") =>
        /\ pc = "panic"
        /\ split = <<>>
        /\ edges = <<>>
        /\ result = NoResult

\* face_union aborted on two different surfaces.
C12_Witness ==
    /\ DifferentSurfaces
    /\ face_op = "face_union"
    /\ pc = "panic"

\* A split vertex does not project onto self or onto other, and the
\* parity assertion and the n == 0 return are passed.
ProjectionMiss ==
    /\ Len(split_verts) > 0
    /\ Len(split_verts) % 2 = 0
    /\ \E k \in 1..Len(split_verts) :
          \/ LoopProject(self_loop, split_verts[k]) < 0
          \/ LoopProject(other_loop, split_verts[k]) < 0

\* C13: when a split vertex does not project onto one of the loops,
\* cutting_split (and so remesh_self_other and union) does not abort: the
\* call ends and hands the caller a failure value.
C13_ProjectionMissRecoverable ==
    (ProjectionMiss /\ pc # "split") =>
        /\ pc = "done"
        /\ result.kind = "Err"

\* C16: the number of vertices cutting_split has collected, repeated
\* detections collapsed and Edge records ignored, is even, and the
\* assertion n % 2 == 0 does not abort the call.
C16_Parity ==
    pc # "start" =>
        /\ Len(split_verts) % 2 = 0
        /\ pc # "panic"

\* The stretches of a chain of edges in order, each with its curve.
RECURSIVE StretchSeq(_)
StretchSeq(chain) ==
    IF chain = <<>> THEN <<>>
    ELSE LET e == Head(chain)
         IN [j \in 1..(Len(EdgePts(e)) - 1) |->
                <<EdgePts(e)[j], EdgePts(e)[j + 1], e.curve>>]
            \o StretchSeq(Tail(chain))

\* The sequence t is the sequence s read from some position on, cyclically.
IsRotation(s, t) ==
    /\ Len(s) = Len(t)
    /\ \E r \in 0..(Len(s) - 1) :
          \A k \in 1..Len(s) : t[k] = s[((k + r - 1) % Len(s)) + 1]

\* Each segment is a chain of joined edges, and the segments in order,
\* each starting where the one before ended, run over the stretches of
\* the loop once, each stretch on the curve it has in the loop.
Partitions(loop, segments) ==
    /\ \A k \in 1..Len(segments) :
          /\ Len(segments[k]) > 0
          /\ \A i \in 1..(Len(segments[k]) - 1) :
                segments[k][i].end = segments[k][i + 1].start
          /\ segments[k][Len(segments[k])].end
                 = segments[(k % Len(segments)) + 1][1].start
    /\ IsRotation(StretchSeq(loop), StretchSeq(Flatten(segments)))

\* C17: the segments cutting_split made of self, and those it made of
\* other, are chains from split vertex to split vertex that together
\* cover every stretch of their loop exactly once, on its curve, with
\* no gap and nothing added, also when a split vertex is an edge end.
C17_PartitionComplete ==
    all_self # <<>> =>
        /\ Partitions(self_loop, all_self)
        /\ Partitions(other_loop, all_other)

\* C14: face_union(A, A) returns a face whose boundary has the points of
\* the boundary of A, every stretch of it once.
C14_Idempotent ==
    (pc = "done" /\ boundary_other = boundary_self) =>
        /\ result.kind = "Face"
        /\ BoundaryPoints(result.from) = BoundaryPoints(boundary_self)
        /\ Len(result.from) = Len(boundary_self)

C14_Witness ==
    /\ pc = "done"
    /\ boundary_other = boundary_self
    /\ Len(boundary_self) > 1
    /\ result.kind = "Face"

\* C15: face_union(B, A) returns a face with the boundary points of the
\* face face_union(A, B) returned, although only the copy of face_self is
\* kept of a coincident stretch.
C15_Commutative ==
    (pc = "done" /\ call = 2) =>
        /\ result.kind = "Face"
        /\ BoundaryPoints(result.from) = BoundaryPoints(first.from)

C15_Witness ==
    /\ pc = "done"
    /\ call = 2
    /\ boundary_self # boundary_other
    /\ \E i, j, k \in 1..Len(split) :
          /\ split[i].tag = "AonBSameSide"
          /\ split[j].tag = "AoutB"
          /\ split[k].tag = "BoutA"
    /\ BoundaryPoints(result.from) = BoundaryPoints(first.from)

====
